---- MODULE Spec2Model ----
(***************************************************************************)
(* GPS power-up sequencer of GPSInit_HighLevelApp2a/main.c.                *)
(*                                                                         *)
(* The program is single threaded: main() runs InitPeripheralsAndHandlers, *)
(* then the epoll loop, then ClosePeripheralsAndHandlers.  The only        *)
(* asynchronous input is SIGTERM (TerminationHandler).  Every call into    *)
(* the GPIO / UART / epoll API may return an error; the outcome of each    *)
(* call is an input of the action that issues it.                          *)
(***************************************************************************)
EXTENDS Integers, Sequences, FiniteSets, TLC

VARIABLES
    pc,                     \* position of main()
    epollFd, gpsPwrGpioFd, gpsWakeupGpioFd, SampleBlueLedGpioFd,
    uartFd, gpsInitTimerFd, \* the six descriptor globals, -1 = invalid
    terminationRequired,    \* volatile sig_atomic_t flag
    openFds,                \* descriptors the process currently holds open
    registered,             \* descriptors in the epoll interest set
    powerOut,               \* level of the GPS PWR ON_OFF pin
    blueLed,                \* level of the blue LED pin (Low = lit)
    wakeupPin,              \* level of the GPS WAKEUP pad (hardware input)
    initWakeupState,        \* gpsWakeupState local of InitPeripheralsAndHandlers
    timerWakeupState,       \* gpsWakeupState local of gpsInitTimerEventHandler
    initResult,             \* return value of InitPeripheralsAndHandlers
    bytesRead,              \* bytesRead local of UartEventHandler
    dispatched,             \* handler run by the current/last wait-and-dispatch
    log,                    \* Log_Debug output of main.c
    issued,                 \* call sites executed so far
    failed,                 \* call sites that returned an error
    timerRuns,              \* dispatches of gpsInitTimerEventHandler
    nDispatch               \* handler dispatches so far

vars == <<pc, epollFd, gpsPwrGpioFd, gpsWakeupGpioFd, SampleBlueLedGpioFd,
          uartFd, gpsInitTimerFd, terminationRequired, openFds, registered,
          powerOut, blueLed, wakeupPin, initWakeupState, timerWakeupState,
          initResult, bytesRead, dispatched, log, issued, failed, timerRuns,
          nDispatch>>

fdVars == <<epollFd, gpsPwrGpioFd, gpsWakeupGpioFd, SampleBlueLedGpioFd,
            uartFd, gpsInitTimerFd>>

\* Bounds of the model.
MaxDispatch == 2
MaxBytes == 2

\* ---------------------------------------------------------------------
\* Values and helpers
\* ---------------------------------------------------------------------
GPIO_Value_Low == "Low"
GPIO_Value_High == "High"
GPIO_Value_Type == {GPIO_Value_Low, GPIO_Value_High}

InvalidFd == 0 - 1

\* open()/timerfd_create()/epoll_create() return the lowest free descriptor.
NewFd == CHOOSE n \in 0..Cardinality(openFds) :
            /\ n \notin openFds
            /\ \A m \in 0..Cardinality(openFds) : m \notin openFds => n <= m

\* Possible outcomes (TRUE = success) of a call on descriptor fd: a call
\* on an invalid descriptor always fails.
Outcomes(fd) == IF fd < 0 THEN {FALSE} ELSE BOOLEAN

ErrorEntry(m) == [kind |-> "error", msg |-> m]
InfoEntry(m) == [kind |-> "info", msg |-> m]
DataEntry(m) == [kind |-> "data", msg |-> m]

\* Bookkeeping of one or more call sites and their outcomes.
Called(sites, bad) ==
    /\ issued' = issued \cup sites
    /\ failed' = failed \cup bad

Init ==
    /\ pc = "start"
    /\ epollFd = InvalidFd
    /\ gpsPwrGpioFd = InvalidFd
    /\ gpsWakeupGpioFd = InvalidFd
    /\ SampleBlueLedGpioFd = InvalidFd
    /\ uartFd = InvalidFd
    /\ gpsInitTimerFd = InvalidFd
    /\ terminationRequired = FALSE
    /\ openFds = {}
    /\ registered = {}
    /\ powerOut = GPIO_Value_Low
    /\ blueLed = GPIO_Value_High
    /\ wakeupPin \in GPIO_Value_Type
    /\ initWakeupState = "unset"
    /\ timerWakeupState = "unset"
    /\ initResult = "none"
    /\ bytesRead = 0
    /\ dispatched = "none"
    /\ log = <<>>
    /\ issued = {}
    /\ failed = {}
    /\ timerRuns = 0
    /\ nDispatch = 0

\* ---------------------------------------------------------------------
\* Environment
\* ---------------------------------------------------------------------

\* The GPS module drives its WAKEUP pad; software only samples it.
WakeupChange ==
    /\ pc # "done"
    /\ wakeupPin' = IF wakeupPin = GPIO_Value_Low THEN GPIO_Value_High
                    ELSE GPIO_Value_Low
    /\ UNCHANGED <<pc, fdVars, terminationRequired, openFds, registered,
                   powerOut, blueLed, initWakeupState, timerWakeupState,
                   initResult, bytesRead, dispatched, log, issued, failed,
                   timerRuns, nDispatch>>

\* Variant of TerminationHandler that also switches the GPS power off from
\* signal context.
TerminationHandler_Cleanup ==
    /\ pc \notin {"start", "done"}
    /\ terminationRequired' = TRUE
    /\ powerOut' = GPIO_Value_Low
    /\ pc' = IF pc = "blocked" THEN "loop_test" ELSE pc
    /\ UNCHANGED <<fdVars, openFds, registered, blueLed, wakeupPin,
                   initWakeupState, timerWakeupState, initResult, bytesRead,
                   dispatched, log, issued, failed, timerRuns, nDispatch>>

\* SIGTERM delivered once the handler is installed.  A signal that arrives
\* while epoll_wait is blocked makes the wait return (EINTR), which
\* WaitForEventAndCallHandler reports as success without a dispatch.
TerminationHandler ==
    /\ pc \notin {"start", "done"}
    /\ terminationRequired' = TRUE
    /\ pc' = IF pc = "blocked" THEN "loop_test" ELSE pc
    /\ UNCHANGED <<fdVars, openFds, registered, powerOut, blueLed, wakeupPin,
                   initWakeupState, timerWakeupState, initResult, bytesRead,
                   dispatched, log, issued, failed, timerRuns, nDispatch>>

\* ---------------------------------------------------------------------
\* InitPeripheralsAndHandlers, one action per step
\* ---------------------------------------------------------------------
loopVars == <<timerWakeupState, bytesRead, dispatched, timerRuns, nDispatch>>

\* "return -1" / "return 0" of InitPeripheralsAndHandlers.
InitReturn(r) ==
    /\ pc' = "init_ret"
    /\ initResult' = r

\* main: Log_Debug("GPS Init application starting"), then
\* sigaction(SIGTERM, &action, NULL) at the top of InitPeripheralsAndHandlers.
InstallHandler ==
    /\ pc = "start"
    /\ pc' = "create_epoll"
    /\ log' = Append(log, InfoEntry("GPS Init application starting"))
    /\ UNCHANGED <<fdVars, terminationRequired, openFds, registered, powerOut,
                   blueLed, wakeupPin, initWakeupState, initResult,
                   issued, failed, loopVars>>

\* epollFd = CreateEpollFd(); if (epollFd < 0) return -1;
CreateEpoll(ok) ==
    /\ pc = "create_epoll"
    /\ Called({"CreateEpollFd"}, IF ok THEN {} ELSE {"CreateEpollFd"})
    /\ IF ok
         THEN /\ epollFd' = NewFd
              /\ openFds' = openFds \cup {NewFd}
              /\ pc' = "open_pwr"
              /\ UNCHANGED initResult
         ELSE /\ epollFd' = InvalidFd
              /\ InitReturn(0 - 1)
              /\ UNCHANGED openFds
    /\ UNCHANGED <<gpsPwrGpioFd, gpsWakeupGpioFd, SampleBlueLedGpioFd, uartFd,
                   gpsInitTimerFd, terminationRequired, registered, powerOut,
                   blueLed, wakeupPin, initWakeupState, log, loopVars>>

\* gpsPwrGpioFd = GPIO_OpenAsOutput(GPIO0, PushPull, GPIO_Value_Low)
OpenPwr(ok) ==
    /\ pc = "open_pwr"
    /\ Called({"OpenPwr"}, IF ok THEN {} ELSE {"OpenPwr"})
    /\ IF ok
         THEN /\ gpsPwrGpioFd' = NewFd
              /\ openFds' = openFds \cup {NewFd}
              /\ powerOut' = GPIO_Value_Low
              /\ log' = Append(log, InfoEntry("Opening GPS PWR as output"))
              /\ pc' = "open_wakeup"
              /\ UNCHANGED initResult
         ELSE /\ gpsPwrGpioFd' = InvalidFd
              /\ log' = log \o <<InfoEntry("Opening GPS PWR as output"),
                                 ErrorEntry("Could not open GPS PWR GPIO")>>
              /\ InitReturn(0 - 1)
              /\ UNCHANGED <<openFds, powerOut>>
    /\ UNCHANGED <<epollFd, gpsWakeupGpioFd, SampleBlueLedGpioFd, uartFd,
                   gpsInitTimerFd, terminationRequired, registered, blueLed,
                   wakeupPin, initWakeupState, loopVars>>

\* gpsWakeupGpioFd = GPIO_OpenAsInput(GPIO42); the test that follows looks
\* at gpsPwrGpioFd, not at the descriptor just assigned.
OpenWakeup(ok) ==
    /\ pc = "open_wakeup"
    /\ Called({"OpenWakeup"}, IF ok THEN {} ELSE {"OpenWakeup"})
    /\ gpsWakeupGpioFd' = IF ok THEN NewFd ELSE InvalidFd
    /\ openFds' = IF ok THEN openFds \cup {NewFd} ELSE openFds
    /\ IF gpsPwrGpioFd < 0
         THEN /\ log' = log \o <<InfoEntry("Opening GPS WAKEUP as input"),
                                 ErrorEntry("Could not open GPS WAKUP GPIO")>>
              /\ InitReturn(0 - 1)
         ELSE /\ log' = Append(log, InfoEntry("Opening GPS WAKEUP as input"))
              /\ pc' = "open_led"
              /\ UNCHANGED initResult
    /\ UNCHANGED <<epollFd, gpsPwrGpioFd, SampleBlueLedGpioFd, uartFd,
                   gpsInitTimerFd, terminationRequired, registered, powerOut,
                   blueLed, wakeupPin, initWakeupState, loopVars>>

\* SampleBlueLedGpioFd = GPIO_OpenAsOutput(BLUE, PushPull, GPIO_Value_High)
OpenLed(ok) ==
    /\ pc = "open_led"
    /\ Called({"OpenLed"}, IF ok THEN {} ELSE {"OpenLed"})
    /\ IF ok
         THEN /\ SampleBlueLedGpioFd' = NewFd
              /\ openFds' = openFds \cup {NewFd}
              /\ blueLed' = GPIO_Value_High
              /\ log' = Append(log, InfoEntry("Opening LED as output"))
              /\ pc' = "read_wakeup"
              /\ UNCHANGED <<initResult, terminationRequired>>
         ELSE /\ SampleBlueLedGpioFd' = InvalidFd
              /\ log' = log \o <<InfoEntry("Opening LED as output"),
                                 ErrorEntry("Could not open Blue LED GPIO")>>
              /\ terminationRequired' = TRUE
              /\ InitReturn(0 - 1)
              /\ UNCHANGED <<openFds, blueLed>>
    /\ UNCHANGED <<epollFd, gpsPwrGpioFd, gpsWakeupGpioFd, uartFd,
                   gpsInitTimerFd, registered, powerOut, wakeupPin,
                   initWakeupState, loopVars>>

\* Variant of ReadWakeup with the test on gpsWakeupState inverted: the
\* pulse is sent when the module is already awake.
ReadWakeup_Inverted(ok) ==
    /\ pc = "read_wakeup"
    /\ ok \in Outcomes(gpsWakeupGpioFd)
    /\ Called({"GetWakeup"}, IF ok THEN {} ELSE {"GetWakeup"})
    /\ IF ok
         THEN /\ initWakeupState' = wakeupPin
              /\ IF wakeupPin = GPIO_Value_Low
                   THEN /\ log' = Append(log, InfoEntry("GPS already awake"))
                        /\ pc' = "create_timer"
                   ELSE /\ log' = log
                        /\ pc' = "set_pwr"
              /\ UNCHANGED <<initResult, terminationRequired>>
         ELSE /\ log' = Append(log, ErrorEntry("Could not read GPS WAKEUP"))
              /\ terminationRequired' = TRUE
              /\ InitReturn(0 - 1)
              /\ UNCHANGED initWakeupState
    /\ UNCHANGED <<fdVars, openFds, registered, powerOut, blueLed, wakeupPin,
                   loopVars>>

\* Variant of ReadWakeup that pulses whatever the WAKEUP pad reads.
ReadWakeup_AlwaysPulse(ok) ==
    /\ pc = "read_wakeup"
    /\ ok \in Outcomes(gpsWakeupGpioFd)
    /\ Called({"GetWakeup"}, IF ok THEN {} ELSE {"GetWakeup"})
    /\ IF ok
         THEN /\ initWakeupState' = wakeupPin
              /\ log' = log
              /\ pc' = "set_pwr"
              /\ UNCHANGED <<initResult, terminationRequired>>
         ELSE /\ log' = Append(log, ErrorEntry("Could not read GPS WAKEUP"))
              /\ terminationRequired' = TRUE
              /\ InitReturn(0 - 1)
              /\ UNCHANGED initWakeupState
    /\ UNCHANGED <<fdVars, openFds, registered, powerOut, blueLed, wakeupPin,
                   loopVars>>

\* Variant of ReadWakeup that, when the module is already awake, goes
\* straight to opening the UART without arming the pulse timer.
ReadWakeup_SkipTimer(ok) ==
    /\ pc = "read_wakeup"
    /\ ok \in Outcomes(gpsWakeupGpioFd)
    /\ Called({"GetWakeup"}, IF ok THEN {} ELSE {"GetWakeup"})
    /\ IF ok
         THEN /\ initWakeupState' = wakeupPin
              /\ IF wakeupPin = GPIO_Value_High
                   THEN /\ log' = Append(log, InfoEntry("GPS already awake"))
                        /\ pc' = "open_uart"
                   ELSE /\ log' = log
                        /\ pc' = "set_pwr"
              /\ UNCHANGED <<initResult, terminationRequired>>
         ELSE /\ log' = Append(log, ErrorEntry("Could not read GPS WAKEUP"))
              /\ terminationRequired' = TRUE
              /\ InitReturn(0 - 1)
              /\ UNCHANGED initWakeupState
    /\ UNCHANGED <<fdVars, openFds, registered, powerOut, blueLed, wakeupPin,
                   loopVars>>

\* result = GPIO_GetValue(gpsWakeupGpioFd, &gpsWakeupState)
ReadWakeup(ok) ==
    /\ pc = "read_wakeup"
    /\ ok \in Outcomes(gpsWakeupGpioFd)
    /\ Called({"GetWakeup"}, IF ok THEN {} ELSE {"GetWakeup"})
    /\ IF ok
         THEN /\ initWakeupState' = wakeupPin
              /\ IF wakeupPin = GPIO_Value_High
                   THEN /\ log' = Append(log, InfoEntry("GPS already awake"))
                        /\ pc' = "create_timer"
                   ELSE /\ log' = log
                        /\ pc' = "set_pwr"
              /\ UNCHANGED <<initResult, terminationRequired>>
         ELSE /\ log' = Append(log, ErrorEntry("Could not read GPS WAKEUP"))
              /\ terminationRequired' = TRUE
              /\ InitReturn(0 - 1)
              /\ UNCHANGED initWakeupState
    /\ UNCHANGED <<fdVars, openFds, registered, powerOut, blueLed, wakeupPin,
                   loopVars>>

\* else branch: result = GPIO_SetValue(gpsPwrGpioFd, GPIO_Value_High)
SetPwrHigh(ok) ==
    /\ pc = "set_pwr"
    /\ ok \in Outcomes(gpsPwrGpioFd)
    /\ Called({"SetPwrHigh"}, IF ok THEN {} ELSE {"SetPwrHigh"})
    /\ IF ok
         THEN /\ powerOut' = GPIO_Value_High
              /\ pc' = "create_timer"
              /\ UNCHANGED <<initResult, terminationRequired, log>>
         ELSE /\ log' = Append(log,
                          ErrorEntry("Could not set GPS PWR output value"))
              /\ terminationRequired' = TRUE
              /\ InitReturn(0 - 1)
              /\ UNCHANGED powerOut
    /\ UNCHANGED <<fdVars, openFds, registered, blueLed, wakeupPin,
                   initWakeupState, loopVars>>

\* gpsInitTimerFd = CreateTimerFdAndAddToEpoll(epollFd, &pulseInterval,
\*                                             &gpsInitTimerEventData, EPOLLIN)
CreateTimer(ok) ==
    /\ pc = "create_timer"
    /\ ok \in Outcomes(epollFd)
    /\ Called({"CreateTimer"}, IF ok THEN {} ELSE {"CreateTimer"})
    /\ IF ok
         THEN /\ gpsInitTimerFd' = NewFd
              /\ openFds' = openFds \cup {NewFd}
              /\ registered' = registered \cup {NewFd}
              /\ pc' = "open_uart"
              /\ UNCHANGED initResult
         ELSE /\ gpsInitTimerFd' = InvalidFd
              /\ InitReturn(0 - 1)
              /\ UNCHANGED <<openFds, registered>>
    /\ UNCHANGED <<epollFd, gpsPwrGpioFd, gpsWakeupGpioFd, SampleBlueLedGpioFd,
                   uartFd, terminationRequired, powerOut, blueLed, wakeupPin,
                   initWakeupState, log, loopVars>>

\* uartFd = UART_Open(SAMPLE_UART, &uartConfig)
OpenUart(ok) ==
    /\ pc = "open_uart"
    /\ Called({"UartOpen"}, IF ok THEN {} ELSE {"UartOpen"})
    /\ IF ok
         THEN /\ uartFd' = NewFd
              /\ openFds' = openFds \cup {NewFd}
              /\ pc' = "register_uart"
              /\ UNCHANGED <<initResult, log>>
         ELSE /\ uartFd' = InvalidFd
              /\ log' = Append(log, ErrorEntry("Could not open UART"))
              /\ InitReturn(0 - 1)
              /\ UNCHANGED openFds
    /\ UNCHANGED <<epollFd, gpsPwrGpioFd, gpsWakeupGpioFd, SampleBlueLedGpioFd,
                   gpsInitTimerFd, terminationRequired, registered, powerOut,
                   blueLed, wakeupPin, initWakeupState, loopVars>>

\* if (RegisterEventHandlerToEpoll(epollFd, uartFd, &uartEventData, EPOLLIN)
\*     != 0) return -1;  return 0;
RegisterUart(ok) ==
    /\ pc = "register_uart"
    /\ ok \in Outcomes(uartFd)
    /\ Called({"RegisterUart"}, IF ok THEN {} ELSE {"RegisterUart"})
    /\ registered' = IF ok THEN registered \cup {uartFd} ELSE registered
    /\ InitReturn(IF ok THEN 0 ELSE 0 - 1)
    /\ UNCHANGED <<fdVars, terminationRequired, openFds, powerOut, blueLed,
                   wakeupPin, initWakeupState, log, loopVars>>

\* ---------------------------------------------------------------------
\* main: the epoll loop
\* ---------------------------------------------------------------------
startVars == <<initWakeupState, initResult>>

\* Variant of MainAfterInit that assigns the flag from the result instead
\* of only raising it.
MainAfterInit_Assign ==
    /\ pc = "init_ret"
    /\ terminationRequired' = (initResult # 0)
    /\ pc' = "loop_test"
    /\ UNCHANGED <<fdVars, openFds, registered, powerOut, blueLed, wakeupPin,
                   startVars, log, issued, failed, loopVars>>

\* if (InitPeripheralsAndHandlers() != 0) terminationRequired = true;
MainAfterInit ==
    /\ pc = "init_ret"
    /\ terminationRequired' = IF initResult # 0 THEN TRUE
                              ELSE terminationRequired
    /\ pc' = "loop_test"
    /\ UNCHANGED <<fdVars, openFds, registered, powerOut, blueLed, wakeupPin,
                   startVars, log, issued, failed, loopVars>>

\* Variant of LoopTest that arms a new pulse timer once the previous one
\* has expired and been unregistered.
LoopTest_Rearm ==
    /\ pc = "loop_test"
    /\ pc' = IF terminationRequired THEN "shutdown"
             ELSE IF dispatched = "timer" /\ gpsInitTimerFd \notin registered
                    THEN "create_timer"
             ELSE "wait_call"
    /\ UNCHANGED <<fdVars, terminationRequired, openFds, registered, powerOut,
                   blueLed, wakeupPin, startVars, log, issued, failed,
                   loopVars>>

\* Variant of LoopTest that never looks at terminationRequired.
LoopTest_Always ==
    /\ pc = "loop_test"
    /\ pc' = "wait_call"
    /\ UNCHANGED <<fdVars, terminationRequired, openFds, registered, powerOut,
                   blueLed, wakeupPin, startVars, log, issued, failed,
                   loopVars>>

\* while (!terminationRequired) { WaitForEventAndCallHandler(epollFd) ... }
LoopTest ==
    /\ pc = "loop_test"
    /\ pc' = IF terminationRequired THEN "shutdown" ELSE "wait_call"
    /\ UNCHANGED <<fdVars, terminationRequired, openFds, registered, powerOut,
                   blueLed, wakeupPin, startVars, log, issued, failed,
                   loopVars>>

\* WaitForEventAndCallHandler enters epoll_wait and blocks.
EnterWait ==
    /\ pc = "wait_call"
    /\ pc' = "blocked"
    /\ dispatched' = "none"
    /\ issued' = issued \cup {"Wait"}
    /\ UNCHANGED <<fdVars, terminationRequired, openFds, registered, powerOut,
                   blueLed, wakeupPin, startVars, log, failed,
                   timerWakeupState, bytesRead, timerRuns, nDispatch>>

\* if (WaitForEventAndCallHandler(epollFd) != 0) terminationRequired = true;
WaitError ==
    /\ pc = "blocked"
    /\ failed' = failed \cup {"Wait"}
    /\ terminationRequired' = TRUE
    /\ pc' = "loop_test"
    /\ UNCHANGED <<fdVars, openFds, registered, powerOut, blueLed, wakeupPin,
                   startVars, log, issued, loopVars>>

\* ---------------------------------------------------------------------
\* gpsInitTimerEventHandler
\* ---------------------------------------------------------------------
\* cOk: ConsumeTimerFdEvent, sOk: GPIO_SetValue(PWR, Low), uOk: Unregister,
\* gOk: GPIO_GetValue(WAKEUP), lOk: GPIO_SetValue(LED, Low).
TimerSites(cOk, sOk, uOk, gOk, lOk) ==
    IF ~cOk THEN {"Consume"}
    ELSE {"Consume", "TimerSetPwrLow", "Unregister", "TimerGetWakeup"}
         \cup (IF gOk /\ wakeupPin = GPIO_Value_High THEN {"SetLed"} ELSE {})

TimerFailures(cOk, sOk, uOk, gOk, lOk) ==
    IF ~cOk THEN {"Consume"}
    ELSE (IF sOk THEN {} ELSE {"TimerSetPwrLow"})
         \cup (IF uOk THEN {} ELSE {"Unregister"})
         \cup (IF gOk THEN {} ELSE {"TimerGetWakeup"})
         \cup (IF gOk /\ wakeupPin = GPIO_Value_High /\ ~lOk
               THEN {"SetLed"} ELSE {})

\* Log_Debug calls of the handler, in order.
TimerLog(cOk, sOk, uOk, gOk, lOk) ==
    IF ~cOk THEN <<>>
    ELSE (IF sOk THEN <<>>
          ELSE <<ErrorEntry("Could not set GPS PWR output value")>>)
         \o (IF ~gOk THEN <<ErrorEntry("Could not read GPS WAKEUP")>>
             ELSE IF wakeupPin = GPIO_Value_Low
                    THEN <<InfoEntry("Now GPS data from UART")>>
             ELSE IF lOk
                    THEN <<InfoEntry("GPS Awake"),
                           InfoEntry("Now GPS data from UART")>>
             ELSE <<InfoEntry("GPS Awake"),
                    ErrorEntry("Could not set Blue LED output value")>>)

\* Variant of TimerFatal that logs a failed GPIO_SetValue on PWR without
\* raising terminationRequired.
TimerFatal_NoSetCheck(cOk, sOk, uOk, gOk, lOk) ==
    \/ ~cOk
    \/ ~gOk
    \/ (wakeupPin = GPIO_Value_High /\ ~lOk)

\* The handler sets terminationRequired on every failure it tests.
TimerFatal(cOk, sOk, uOk, gOk, lOk) ==
    \/ ~cOk
    \/ ~sOk
    \/ ~gOk
    \/ (wakeupPin = GPIO_Value_High /\ ~lOk)

\* Variant of TimerPowerOut in which the handler does not drive PWR.
TimerPowerOut_Keep(cOk, sOk) == powerOut

\* Variant of TimerPowerOut that writes GPIO_Value_High.
TimerPowerOut_High(cOk, sOk) ==
    IF cOk /\ sOk THEN GPIO_Value_High ELSE powerOut

\* GPIO_SetValue(gpsPwrGpioFd, GPIO_Value_Low), reached once the timer
\* event was consumed.
TimerPowerOut(cOk, sOk) ==
    IF cOk /\ sOk THEN GPIO_Value_Low ELSE powerOut

\* Variant of TimerRegistered that leaves the timer in the interest set.
TimerRegistered_Kept(cOk, uOk) == registered

\* UnregisterEventHandlerFromEpoll(epollFd, gpsInitTimerFd); its result is
\* overwritten without being tested.
TimerRegistered(cOk, uOk) ==
    IF cOk /\ uOk THEN registered \ {gpsInitTimerFd} ELSE registered

\* GPIO_GetValue(gpsWakeupGpioFd, &gpsWakeupState)
TimerWakeupRead(cOk, gOk) ==
    IF cOk /\ gOk THEN wakeupPin ELSE "unset"

\* Variant of TimerBlueLed that lights the LED without looking at the value
\* read from WAKEUP.
TimerBlueLed_Unconditional(cOk, gOk, lOk) ==
    IF cOk /\ gOk /\ lOk THEN GPIO_Value_Low ELSE blueLed

\* if (gpsWakeupState == GPIO_Value_High)
\*     GPIO_SetValue(SampleBlueLedGpioFd, GPIO_Value_Low)
TimerBlueLed(cOk, gOk, lOk) ==
    IF cOk /\ gOk /\ wakeupPin = GPIO_Value_High /\ lOk
      THEN GPIO_Value_Low ELSE blueLed

gpsInitTimerEventHandler(cOk, sOk, uOk, gOk, lOk) ==
    /\ cOk \in Outcomes(gpsInitTimerFd)
    /\ sOk \in Outcomes(gpsPwrGpioFd)
    /\ uOk \in Outcomes(gpsInitTimerFd)
    /\ gOk \in Outcomes(gpsWakeupGpioFd)
    /\ lOk \in Outcomes(SampleBlueLedGpioFd)
    /\ Called(TimerSites(cOk, sOk, uOk, gOk, lOk),
              TimerFailures(cOk, sOk, uOk, gOk, lOk))
    /\ terminationRequired' =
          IF TimerFatal(cOk, sOk, uOk, gOk, lOk) THEN TRUE
          ELSE terminationRequired
    /\ powerOut' = TimerPowerOut(cOk, sOk)
    /\ registered' = TimerRegistered(cOk, uOk)
    /\ timerWakeupState' = TimerWakeupRead(cOk, gOk)
    /\ blueLed' = TimerBlueLed(cOk, gOk, lOk)
    /\ log' = log \o TimerLog(cOk, sOk, uOk, gOk, lOk)

\* ---------------------------------------------------------------------
\* UartEventHandler
\* ---------------------------------------------------------------------
\* Variant of UartEventHandler that logs a failed read but does not raise
\* terminationRequired.
UartEventHandler_NoTerminate(n) ==
    /\ (uartFd < 0) => (n < 0)
    /\ bytesRead' = n
    /\ Called({"UartRead"}, IF n < 0 THEN {"UartRead"} ELSE {})
    /\ log' = IF n < 0 THEN Append(log, ErrorEntry("Could not read UART"))
              ELSE IF n > 0 THEN Append(log, DataEntry("UART received"))
              ELSE log
    /\ UNCHANGED terminationRequired
    /\ UNCHANGED <<fdVars, openFds, registered, powerOut, blueLed>>

\* Variant of UartEventHandler whose error test is bytesRead <= 0.
UartEventHandler_ZeroIsError(n) ==
    /\ (uartFd < 0) => (n < 0)
    /\ bytesRead' = n
    /\ Called({"UartRead"}, IF n < 0 THEN {"UartRead"} ELSE {})
    /\ IF n <= 0
         THEN /\ log' = Append(log, ErrorEntry("Could not read UART"))
              /\ terminationRequired' = TRUE
         ELSE /\ log' = Append(log, DataEntry("UART received"))
              /\ UNCHANGED terminationRequired
    /\ UNCHANGED <<fdVars, openFds, registered, powerOut, blueLed>>

\* Variant of UartEventHandler that lights the blue LED when data arrives.
UartEventHandler_LedOnData(n) ==
    /\ (uartFd < 0) => (n < 0)
    /\ bytesRead' = n
    /\ Called({"UartRead"}, IF n < 0 THEN {"UartRead"} ELSE {})
    /\ IF n < 0
         THEN /\ log' = Append(log, ErrorEntry("Could not read UART"))
              /\ terminationRequired' = TRUE
         ELSE /\ log' = IF n > 0
                          THEN Append(log, DataEntry("UART received"))
                          ELSE log
              /\ UNCHANGED terminationRequired
    /\ blueLed' = IF n > 0 THEN GPIO_Value_Low ELSE blueLed
    /\ UNCHANGED <<fdVars, openFds, registered, powerOut>>

\* n is the value returned by read(uartFd, receiveBuffer, receiveBufferSize).
UartEventHandler(n) ==
    /\ (uartFd < 0) => (n < 0)
    /\ bytesRead' = n
    /\ Called({"UartRead"}, IF n < 0 THEN {"UartRead"} ELSE {})
    /\ IF n < 0
         THEN /\ log' = Append(log, ErrorEntry("Could not read UART"))
              /\ terminationRequired' = TRUE
         ELSE /\ log' = IF n > 0
                          THEN Append(log, DataEntry("UART received"))
                          ELSE log
              /\ UNCHANGED terminationRequired
    /\ UNCHANGED <<fdVars, openFds, registered, powerOut, blueLed>>

\* ---------------------------------------------------------------------
\* WaitForEventAndCallHandler: one ready descriptor, its handler is run
\* ---------------------------------------------------------------------
\* The timer is periodic: while it is registered it becomes ready again.
\* Only a failed unregister call leaves it registered, so the number of
\* such failures is what the bound caps.
DispatchTimer ==
    /\ pc = "blocked"
    /\ gpsInitTimerFd \in registered
    /\ \E cOk, sOk, uOk, gOk, lOk \in BOOLEAN :
          /\ (timerRuns + 1 >= MaxDispatch) => uOk
          /\ gpsInitTimerEventHandler(cOk, sOk, uOk, gOk, lOk)
    /\ dispatched' = "timer"
    /\ timerRuns' = timerRuns + 1
    /\ nDispatch' = nDispatch + 1
    /\ pc' = "loop_test"
    /\ UNCHANGED <<fdVars, openFds, wakeupPin, startVars, bytesRead>>

DispatchUart ==
    /\ pc = "blocked"
    /\ nDispatch - timerRuns < MaxDispatch
    /\ uartFd \in registered
    /\ \E n \in (0 - 1)..MaxBytes : UartEventHandler(n)
    /\ dispatched' = "uart"
    /\ nDispatch' = nDispatch + 1
    /\ pc' = "loop_test"
    /\ UNCHANGED <<wakeupPin, startVars, timerWakeupState, timerRuns>>

\* ---------------------------------------------------------------------
\* ClosePeripheralsAndHandlers
\* ---------------------------------------------------------------------
\* Variant of ClosePowerOff that goes straight to closing the descriptors.
ClosePowerOff_NoSet(ok) ==
    /\ pc = "shutdown"
    /\ ok
    /\ pc' = "closing"
    /\ UNCHANGED <<fdVars, terminationRequired, openFds, registered, blueLed,
                   wakeupPin, startVars, log, loopVars, issued, failed,
                   powerOut>>

\* if (gpsPwrGpioFd >= 0) GPIO_SetValue(gpsPwrGpioFd, GPIO_Value_Low);
\* the result of the call is not examined.
ClosePowerOff(ok) ==
    /\ pc = "shutdown"
    /\ IF gpsPwrGpioFd >= 0
         THEN /\ Called({"CloseSetPwrLow"},
                        IF ok THEN {} ELSE {"CloseSetPwrLow"})
              /\ powerOut' = IF ok THEN GPIO_Value_Low ELSE powerOut
         ELSE /\ ok
              /\ UNCHANGED <<issued, failed, powerOut>>
    /\ pc' = "closing"
    /\ UNCHANGED <<fdVars, terminationRequired, openFds, registered, blueLed,
                   wakeupPin, startVars, log, loopVars>>

\* CloseFdAndPrintError(fd, name): if (fd >= 0) close(fd)
ClosedBy(fds) == {fd \in fds : fd >= 0}

\* Log_Debug("Closing file descriptors"); the three CloseFdAndPrintError
\* calls; back in main, Log_Debug("Application exiting"); return 0.
CloseFds ==
    /\ pc = "closing"
    /\ openFds' = openFds \ ClosedBy({gpsInitTimerFd, gpsPwrGpioFd, epollFd})
    /\ registered' = registered \ ClosedBy({gpsInitTimerFd, gpsPwrGpioFd,
                                            epollFd})
    /\ log' = log \o <<InfoEntry("Closing file descriptors"),
                       InfoEntry("Application exiting")>>
    /\ pc' = "done"
    /\ UNCHANGED <<fdVars, terminationRequired, powerOut, blueLed, wakeupPin,
                   startVars, issued, failed, loopVars>>

\* ---------------------------------------------------------------------
\* Specification
\* ---------------------------------------------------------------------
Next ==
    \/ WakeupChange
    \/ TerminationHandler
    \/ InstallHandler
    \/ \E ok \in BOOLEAN : CreateEpoll(ok)
    \/ \E ok \in BOOLEAN : OpenPwr(ok)
    \/ \E ok \in BOOLEAN : OpenWakeup(ok)
    \/ \E ok \in BOOLEAN : OpenLed(ok)
    \/ \E ok \in BOOLEAN : ReadWakeup(ok)
    \/ \E ok \in BOOLEAN : SetPwrHigh(ok)
    \/ \E ok \in BOOLEAN : CreateTimer(ok)
    \/ \E ok \in BOOLEAN : OpenUart(ok)
    \/ \E ok \in BOOLEAN : RegisterUart(ok)
    \/ MainAfterInit
    \/ LoopTest
    \/ EnterWait
    \/ WaitError
    \/ DispatchTimer
    \/ DispatchUart
    \/ \E ok \in BOOLEAN : ClosePowerOff(ok)
    \/ CloseFds

Spec == Init /\ [][Next]_vars

\* The steps main() takes by itself: it is never suspended except inside
\* epoll_wait.
MainStep ==
    \/ InstallHandler
    \/ \E ok \in BOOLEAN : CreateEpoll(ok)
    \/ \E ok \in BOOLEAN : OpenPwr(ok)
    \/ \E ok \in BOOLEAN : OpenWakeup(ok)
    \/ \E ok \in BOOLEAN : OpenLed(ok)
    \/ \E ok \in BOOLEAN : ReadWakeup(ok)
    \/ \E ok \in BOOLEAN : SetPwrHigh(ok)
    \/ \E ok \in BOOLEAN : CreateTimer(ok)
    \/ \E ok \in BOOLEAN : OpenUart(ok)
    \/ \E ok \in BOOLEAN : RegisterUart(ok)
    \/ MainAfterInit
    \/ LoopTest
    \/ EnterWait
    \/ \E ok \in BOOLEAN : ClosePowerOff(ok)
    \/ CloseFds

\* main() keeps running, and an armed timer that stays registered expires
\* (pulseInterval).  UART data, wait errors and SIGTERM may never come.
FairSpec == Spec /\ WF_vars(MainStep) /\ WF_vars(DispatchTimer)

\* ---------------------------------------------------------------------
\* Properties
\* ---------------------------------------------------------------------

\* The startup call sites in program order.
StartupOrder == <<"CreateEpollFd", "OpenPwr", "OpenWakeup", "OpenLed",
                  "GetWakeup", "SetPwrHigh", "CreateTimer", "UartOpen",
                  "RegisterUart">>

\* The step that runs a handler inside WaitForEventAndCallHandler.
TimerStep == pc = "blocked" /\ pc' = "loop_test" /\ dispatched' = "timer"
UartStep == pc = "blocked" /\ pc' = "loop_test" /\ dispatched' = "uart"

C2_PulseIffWakeupLow ==
    (pc = "init_ret" /\ initResult = 0)
        => (powerOut = GPIO_Value_High <=> initWakeupState = GPIO_Value_Low)

C2_Witness ==
    /\ pc = "init_ret"
    /\ initResult = 0
    /\ initWakeupState = GPIO_Value_Low
    /\ powerOut = GPIO_Value_High

C4_LedFollowsWakeup ==
    [][TimerStep =>
         /\ timerWakeupState' = GPIO_Value_High => blueLed' = GPIO_Value_Low
         /\ timerWakeupState' = GPIO_Value_Low => blueLed' = blueLed]_vars

\* C4 (amended): a run of gpsInitTimerEventHandler that reads WAKEUP High
\* and whose GPIO_SetValue on the LED succeeds leaves the LED lit; one that
\* reads Low leaves the LED as it was.
C4_LedFollowsWakeupOnSuccess ==
    [][TimerStep =>
         /\ (timerWakeupState' = GPIO_Value_High /\ "SetLed" \notin failed')
               => blueLed' = GPIO_Value_Low
         /\ timerWakeupState' = GPIO_Value_Low => blueLed' = blueLed]_vars

C4_Witness ==
    /\ dispatched = "timer"
    /\ timerWakeupState = GPIO_Value_High
    /\ "SetLed" \in issued \ failed
    /\ blueLed = GPIO_Value_Low

\* C5: a startup call that fails is the last startup call made, no handler
\* is ever dispatched afterwards, and the loop is not entered.
C5_FailFast ==
    \A i \in 1..Len(StartupOrder) :
        StartupOrder[i] \in failed
          => /\ \A j \in (i + 1)..Len(StartupOrder) :
                   StartupOrder[j] \notin issued
             /\ nDispatch = 0
             /\ "Wait" \notin issued

\* C6: once ClosePeripheralsAndHandlers has run, no descriptor opened
\* during startup is still open.
C6_AllClosed ==
    pc = "done" => openFds = {}

\* C7: a run of UartEventHandler whose read() returns a negative value
\* sets terminationRequired and appends exactly one entry, an error, to
\* the log.
C7_UartErrorTerminates ==
    [][(UartStep /\ bytesRead' < 0) =>
         /\ terminationRequired'
         /\ Len(log') = Len(log) + 1
         /\ SubSeq(log', 1, Len(log)) = log
         /\ log'[Len(log')].kind = "error"]_vars

C7_Witness ==
    /\ dispatched = "uart"
    /\ bytesRead < 0
    /\ terminationRequired
    /\ log[Len(log)].kind = "error"

\* C8: a run of UartEventHandler whose read() returns 0 writes nothing to
\* the log and leaves terminationRequired as it was.
C8_UartZeroIsSilent ==
    [][(UartStep /\ bytesRead' = 0) =>
         /\ log' = log
         /\ terminationRequired' = terminationRequired]_vars

C8_Witness ==
    /\ dispatched = "uart"
    /\ bytesRead = 0
    /\ pc = "wait_call"
    /\ ~terminationRequired

\* C9 (as stated): PowerOut is High in no state unless the startup read of
\* WAKEUP returned Low; and on the skip-pulse branch an expiry of the timer
\* while WAKEUP is High leaves the LED lit.
C9_SkipPulse ==
    [][/\ powerOut' = GPIO_Value_High => initWakeupState' = GPIO_Value_Low
       /\ (TimerStep /\ initWakeupState = GPIO_Value_High
           /\ wakeupPin = GPIO_Value_High)
             => blueLed' = GPIO_Value_Low]_vars

\* C9 (amended): PowerOut is High in no state unless the startup read of
\* WAKEUP returned Low; and on the skip-pulse branch a run of the timer
\* handler while WAKEUP is High, in which ConsumeTimerFdEvent, GPIO_GetValue
\* and the GPIO_SetValue on the LED succeed, leaves the LED lit.
C9_SkipPulseOnSuccess ==
    [][/\ powerOut' = GPIO_Value_High => initWakeupState' = GPIO_Value_Low
       /\ (TimerStep /\ initWakeupState = GPIO_Value_High
           /\ wakeupPin = GPIO_Value_High
           /\ failed' \cap {"Consume", "TimerGetWakeup", "SetLed"} = {})
             => blueLed' = GPIO_Value_Low]_vars

C9_Witness ==
    /\ initWakeupState = GPIO_Value_High
    /\ "SetPwrHigh" \notin issued
    /\ dispatched = "timer"
    /\ timerWakeupState = GPIO_Value_High
    /\ failed = {}
    /\ blueLed = GPIO_Value_Low
    /\ powerOut = GPIO_Value_Low

\* C10: terminationRequired starts false and no step takes it from true
\* back to false.
C10_FlagMonotone ==
    /\ terminationRequired = FALSE
    /\ [][terminationRequired => terminationRequired']_vars

\* The flag was raised during startup and is still up after shutdown.
C10_Witness ==
    /\ pc = "done"
    /\ initResult = 0
    /\ "Wait" \notin issued
    /\ terminationRequired


\* The call sites that access the GPIO or UART hardware from startup or
\* from a handler.
HardwareSites == {"OpenPwr", "OpenWakeup", "OpenLed", "GetWakeup",
                  "SetPwrHigh", "UartOpen", "TimerSetPwrLow",
                  "TimerGetWakeup", "SetLed", "UartRead"}

StartupSites == {"OpenPwr", "OpenWakeup", "OpenLed", "GetWakeup",
                 "SetPwrHigh", "UartOpen"}

\* The position of main() from which each startup hardware call is made.
SitePc(s) ==
    CASE s = "OpenPwr" -> "open_pwr"
      [] s = "OpenWakeup" -> "open_wakeup"
      [] s = "OpenLed" -> "open_led"
      [] s = "GetWakeup" -> "read_wakeup"
      [] s = "SetPwrHigh" -> "set_pwr"
      [] s = "UartOpen" -> "open_uart"

\* C11: once a hardware call of startup or of a handler has returned an
\* error, terminationRequired is true whenever the loop condition is
\* evaluated, main never waits for an event again, and the call that
\* failed is not made a second time.
C11_HardwareErrorIsFatal ==
    [][LET bad == failed \cap HardwareSites
           badAfter == failed' \cap HardwareSites
       IN  /\ (pc' = "loop_test" /\ badAfter # {}) => terminationRequired'
           /\ badAfter # {} => pc' \notin {"wait_call", "blocked"}
           /\ \A s \in bad \cap StartupSites : ~(pc = SitePc(s) /\ pc' # pc)
           /\ bad \ StartupSites # {} => ~(TimerStep \/ UartStep)]_vars

\* Shutdown is reached after the handler's GPIO_SetValue on PWR failed.
C11_Witness ==
    /\ pc = "shutdown"
    /\ "TimerSetPwrLow" \in failed
    /\ failed \subseteq {"TimerSetPwrLow"}
    /\ terminationRequired


\* C12: once terminationRequired is true, whether SIGTERM or an error set
\* it and wherever main() was at that moment, the loop is eventually left
\* and ClosePeripheralsAndHandlers runs to its end.
C12_TerminationLeadsToShutdown ==
    terminationRequired ~> (pc = "done")


\* C13: the epoll interest set never holds more than one timer, the timer
\* descriptor is assigned by a successful create at most once, and that
\* happens before any expiry or unregister call.
C13_SingleTimer ==
    [][/\ Cardinality(registered' \ {uartFd'}) <= 1
       /\ registered' \ {uartFd'} \subseteq {gpsInitTimerFd'}
       /\ gpsInitTimerFd' # gpsInitTimerFd
            => /\ gpsInitTimerFd = InvalidFd
               /\ pc = "create_timer"
               /\ timerRuns = 0
               /\ "Unregister" \notin issued]_vars

\* The timer was armed, has expired and been unregistered, and main is
\* waiting again.
C13_Witness ==
    /\ pc = "blocked"
    /\ gpsInitTimerFd >= 0
    /\ gpsInitTimerFd \notin registered
    /\ "Unregister" \in issued \ failed
    /\ timerRuns = 1


\* Some UART data has been written to the log.
DataLogged == \E i \in 1..Len(log) : log[i].kind = "data"

\* C14 (as stated): UART data is written to the log only after
\* gpsInitTimerEventHandler has run.
C14_DataAfterTimer ==
    DataLogged => timerRuns >= 1

\* C14 (amended): UART data is written to the log only after startup has
\* completed successfully, that is after the WAKEUP pad was read, the
\* pulse was asserted if it read Low, and the pulse timer was armed; the
\* UART handler may run before the timer handler.
C14_DataAfterStartup ==
    DataLogged
      => /\ initResult = 0
         /\ initWakeupState \in GPIO_Value_Type
         /\ initWakeupState = GPIO_Value_Low => "SetPwrHigh" \in issued \ failed
         /\ "CreateTimer" \in issued \ failed
         /\ gpsInitTimerFd >= 0

\* UART data was logged while the pulse is still asserted and the timer
\* has not expired yet.
C14_Witness ==
    /\ DataLogged
    /\ timerRuns = 0
    /\ powerOut = GPIO_Value_High
    /\ gpsInitTimerFd \in registered


C16_CleanupOnlyInMain ==
    [][/\ TerminationHandler
            => /\ UNCHANGED <<fdVars, openFds, registered, powerOut, blueLed,
                              log, issued, failed>>
               /\ pc' \in {pc, "loop_test"}
               /\ pc' \notin {"shutdown", "closing", "done"} \ {pc}
       /\ (pc' = "shutdown" /\ pc # "shutdown")
            => (pc = "loop_test" /\ terminationRequired /\ LoopTest)
       /\ (openFds' # openFds /\ openFds' \subseteq openFds)
            => (pc = "closing" /\ CloseFds)
       /\ "CloseSetPwrLow" \in issued' \ issued => pc = "shutdown"
       /\ pc \in {"closing", "done"} => pc' \in {"closing", "done"}
       /\ pc = "done" => pc' = "done"]_vars

\* SIGTERM arrived while the pulse was asserted and main() was blocked;
\* the power is still on when the handler has returned.
C16_Witness ==
    /\ pc = "loop_test"
    /\ dispatched = "none"
    /\ "Wait" \in issued \ failed
    /\ terminationRequired
    /\ powerOut = GPIO_Value_High
    /\ failed = {}


\* C17: a run of UartEventHandler, whatever read() returns, leaves PowerOut,
\* the LED, the epoll interest set and every descriptor as they were; it
\* appends at most one entry to the log and can only raise
\* terminationRequired; and what it does depends on the value read() just
\* returned alone: an error entry and the flag for a negative value,
\* nothing for zero, a data entry for a positive value.
C17_UartFrame ==
    [][UartStep =>
         /\ UNCHANGED <<fdVars, openFds, registered, powerOut, blueLed,
                        timerWakeupState, timerRuns, initWakeupState,
                        initResult>>
         /\ terminationRequired => terminationRequired'
         /\ terminationRequired' # terminationRequired => bytesRead' < 0
         /\ \/ bytesRead' = 0 /\ log' = log
            \/ /\ bytesRead' # 0
               /\ Len(log') = Len(log) + 1
               /\ SubSeq(log', 1, Len(log)) = log
               /\ log'[Len(log')].kind =
                     (IF bytesRead' < 0 THEN "error" ELSE "data")]_vars

\* Data was relayed while the pulse was asserted and the LED dark; both are
\* as the sequencer left them.
C17_Witness ==
    /\ dispatched = "uart"
    /\ bytesRead > 0
    /\ DataLogged
    /\ powerOut = GPIO_Value_High
    /\ blueLed = GPIO_Value_High
    /\ gpsInitTimerFd \in registered


\* C18: PowerOut goes from Low to High only in the startup step that
\* follows a Low read of WAKEUP, before the pulse timer exists and before
\* anything is registered with epoll; that step is taken at most once, and
\* no handler and no shutdown step drives PowerOut High.
C18_HighOnlyAtStartup ==
    [][/\ (powerOut' = GPIO_Value_High /\ powerOut # GPIO_Value_High)
            => /\ pc = "set_pwr"
               /\ "SetPwrHigh" \notin issued
               /\ initWakeupState = GPIO_Value_Low
               /\ gpsInitTimerFd = InvalidFd
               /\ uartFd = InvalidFd
               /\ registered = {}
       /\ (TimerStep \/ UartStep \/ pc \in {"shutdown", "closing", "done"})
            => powerOut' \in {powerOut, GPIO_Value_Low}]_vars

\* The timer handler has run on the skip-pulse branch and PowerOut was
\* never driven High.
C18_Witness ==
    /\ dispatched = "timer"
    /\ initWakeupState = GPIO_Value_High
    /\ "TimerSetPwrLow" \in issued \ failed
    /\ "SetPwrHigh" \notin issued
    /\ powerOut = GPIO_Value_Low

\* The call sites of the handlers and of the loop whose failure sets
\* terminationRequired.
LoopFatalSites == {"Consume", "TimerSetPwrLow", "TimerGetWakeup", "SetLed",
                   "UartRead", "Wait"}

\* C19: once a handler or a failed wait has set terminationRequired, no
\* handler is dispatched any more and main does not enter
\* WaitForEventAndCallHandler again; the wait is only ever entered from a
\* loop test that found the flag false.
C19_NoDispatchAfterFatal ==
    [][/\ failed \cap LoopFatalSites # {}
            => /\ ~(TimerStep \/ UartStep)
               /\ terminationRequired
               /\ pc' \in {"loop_test", "shutdown", "closing", "done"}
       /\ (pc' = "wait_call" /\ pc # "wait_call")
            => (pc = "loop_test" /\ ~terminationRequired)
       /\ (pc = "loop_test" /\ pc' # pc /\ terminationRequired)
            => pc' = "shutdown"]_vars

\* A failed UART read was followed directly by shutdown.
C19_Witness ==
    /\ pc = "shutdown"
    /\ dispatched = "uart"
    /\ "UartRead" \in failed
    /\ bytesRead < 0


\* The descriptors a step taken from the current position hands to the
\* GPIO, UART, timer or epoll API.
UsedFds ==
    CASE pc = "read_wakeup" -> {gpsWakeupGpioFd}
      [] pc = "set_pwr" -> {gpsPwrGpioFd}
      [] pc = "create_timer" -> {epollFd}
      [] pc = "register_uart" -> {epollFd, uartFd}
      [] pc = "wait_call" -> {epollFd}
      [] pc = "shutdown" /\ "CloseSetPwrLow" \in issued' -> {gpsPwrGpioFd}
      [] pc = "blocked" /\ dispatched' = "timer" ->
            {gpsInitTimerFd}
            \cup (IF "Consume" \in failed' THEN {}
                  ELSE {gpsPwrGpioFd, epollFd, gpsWakeupGpioFd})
            \cup (IF timerWakeupState' = GPIO_Value_High
                  THEN {SampleBlueLedGpioFd} ELSE {})
      [] pc = "blocked" /\ dispatched' = "uart" -> {uartFd}
      [] OTHER -> {}

\* C20: every descriptor handed to a GPIO, UART, timer or epoll call is
\* open at that moment, neither -1 nor already closed; in particular
\* WAKEUP is read on an opened descriptor and shutdown drives PowerOut
\* before it closes the descriptor.
C20_OnlyOpenHandles ==
    [][pc' # pc => UsedFds \subseteq openFds]_vars

====
